---- MODULE Spec2Model ----
(***************************************************************************)
(* A model of teruminator (src/src/main.rs): a terminal renderer of a      *)
(* rotating cube.  The module holds five state machines over one set of    *)
(* variables, one per part of the program:                                 *)
(*   SpecLine    draw_line, the Bresenham loop, one iteration per step;    *)
(*   SpecQuad    point_in_quad applied to quads and points;                *)
(*   SpecMerge   the z-buffer merge and the serialisation of render_cube   *)
(*               on arbitrary fragment streams and grid sizes;             *)
(*   SpecRender  render_cube end to end on the cube tables;                *)
(*   SpecMain    the loop of main with usable_space.                       *)
(* A part that a specification does not use keeps its idle value.          *)
(* Floating-point values are modelled exactly, as rationals held in scaled *)
(* integers; the scale is stated where it is used.                         *)
(***************************************************************************)
EXTENDS Integers, Sequences, FiniteSets, TLC

VARIABLES
    \* draw_line
    x0, y0, x1, y1,      \* the endpoints (arguments)
    x, y, err,           \* the loop's locals
    linebuf,             \* the fragments pushed by this call, as <<x, y>>
    lpc,                 \* "idle" | "loop" | "done"
    \* point_in_quad
    vertices,            \* the quad, a sequence of <<x, y>>
    px, py,              \* the point tested
    inside_fwd,          \* the result for vertices as listed
    inside_rev,          \* the result for vertices listed in the other direction
    qpc,                 \* "idle" | "ready" | "tested"
    \* render_cube: the fragment stream and the two grids
    width, height,
    buffer,              \* the fragment stream, records [x, y, z, c, color]
    bi,                  \* index in buffer of the next fragment to merge
    z_buffer,            \* the depth grid, a function on 0..width*height-1
    char_buffer,         \* the glyph/colour grid, <<c, color>> per cell
    pass,                \* 1 for the merge of render_cube, 2 for a re-submission
    first_z, first_char, \* the grids as the first merge left them
    mpc,                 \* "idle"|"emit"|"merge"|"merged"|"serial"|"done"|"panic"
    \* render_cube: the serialisation
    output,              \* the frame, a sequence of tokens
    current_color,       \* "None" or the running colour
    row, col,            \* the cell (y, x) the serialisation loops are at
    \* render_cube: transform, faces and edges
    angles,              \* <<angle_x, angle_y, angle_z>>, each [c, s, d]
    transformed,         \* the 8 rotated vertices, integers over tscale
    tscale,              \* the denominator of transformed
    face_depths,         \* sequence of [face, center_z, normal]
    fi,                  \* index in face_depths of the next face to render
    ei,                  \* index in CUBE_EDGES of the next edge to draw
    skipped,             \* the faces the culling test has skipped
    \* main
    mainpc,              \* "idle"|"query"|"render"|"print"|"flush"|"exited"
    cols, lines,         \* the result of usable_space in this iteration
    screen,              \* the frame rendered in this iteration, or NoScreen
    frames,              \* the frames written so far, counted up to MaxFrames
    exit_cause,          \* why the process ended: "None"|"query"|"print"|"flush"
    query_failed,        \* a terminal query has failed in this iteration
    rendered, wrote      \* this iteration has rendered, has printed a frame

lineVars == <<x0, y0, x1, y1, x, y, err, linebuf, lpc>>
quadVars == <<vertices, px, py, inside_fwd, inside_rev, qpc>>
gridVars == <<width, height, buffer, bi, z_buffer, char_buffer, pass,
              first_z, first_char, mpc>>
serialVars == <<output, current_color, row, col>>
cubeVars == <<angles, transformed, tscale, face_depths, fi, ei, skipped>>
mainVars == <<mainpc, cols, lines, screen, frames, exit_cause, query_failed,
              rendered, wrote>>
vars == <<lineVars, quadVars, gridVars, serialVars, cubeVars, mainVars>>

Abs(n) == IF n < 0 THEN -n ELSE n
Max2(a, b) == IF a >= b THEN a ELSE b
Min2(a, b) == IF a <= b THEN a ELSE b

\* The Err of a failed terminal query (the ? of lines 8-9), and the screen
\* of an iteration that has rendered nothing yet.
Err == <<>>
NoScreen == <<>>

(***************************************************************************)
(* Bounds of the model.                                                    *)
(***************************************************************************)
\* draw_line endpoints are drawn from -MaxCoord..MaxCoord on both axes.
MaxCoord == 3
\* point_in_quad vertices and points are drawn from 0..MaxQuad on both axes.
MaxQuad == 2

LineCoords == (0 - MaxCoord)..MaxCoord
QuadCoords == 0..MaxQuad
\* The merge is run on streams of at most MaxFrags fragments with depths
\* 1..MaxZ, on every grid whose width and height are in GridDims.
MaxFrags == 2
MaxZ == 2
GridDims == {0, 1, 2}
\* The serialisation is run on every grid of at most MaxCells cells.
MaxCells == 4
\* The terminal of main reports sizes and cursor positions in 0..MaxTerm,
\* and main counts the frames it has written up to MaxFrames.
MaxTerm == 2
MaxFrames == 2

(***************************************************************************)
(* draw_line (main.rs 88-114).                                             *)
(***************************************************************************)
\* dx = (x1 - x0).abs()
LineDx(ax0, ax1) == Abs(ax1 - ax0)
\* A variant of dy without the negation.
LineDyPositive(ay0, ay1) == Abs(ay1 - ay0)
\* dy = -(y1 - y0).abs()
LineDy(ay0, ay1) == 0 - Abs(ay1 - ay0)
\* sx = if x0 < x1 { 1 } else { -1 }   (sy alike)
LineSign(a0, a1) == IF a0 < a1 THEN 1 ELSE -1

\* The locals on entry to the loop.
LineStart(ax0, ay0, ax1, ay1) ==
    [x |-> ax0, y |-> ay0, err |-> LineDx(ax0, ax1) + LineDy(ay0, ay1),
     pts |-> <<>>, done |-> FALSE]

\* The test that ends the loop after the push (line 100).
LineAtEnd(cx, cy, ax1, ay1) == cx = ax1 /\ cy = ay1

\* One iteration of the loop (lines 98-112) from the locals st.
LineIter(st, ax0, ay0, ax1, ay1) ==
    LET dx == LineDx(ax0, ax1)
        dy == LineDy(ay0, ay1)
        sx == LineSign(ax0, ax1)
        sy == LineSign(ay0, ay1)
        pushed == Append(st.pts, <<st.x, st.y>>)
        e2 == 2 * st.err
    IN  IF LineAtEnd(st.x, st.y, ax1, ay1)
        THEN [st EXCEPT !.pts = pushed, !.done = TRUE]
        ELSE IF e2 >= dy /\ st.x = ax1
        THEN [st EXCEPT !.pts = pushed, !.done = TRUE]
        ELSE LET errA == IF e2 >= dy THEN st.err + dy ELSE st.err
                 xA == IF e2 >= dy THEN st.x + sx ELSE st.x
             IN  IF e2 <= dx /\ st.y = ay1
                 THEN [x |-> xA, y |-> st.y, err |-> errA, pts |-> pushed,
                       done |-> TRUE]
                 ELSE [x |-> xA,
                       y |-> IF e2 <= dx THEN st.y + sy ELSE st.y,
                       err |-> IF e2 <= dx THEN errA + dx ELSE errA,
                       pts |-> pushed, done |-> FALSE]

\* The whole call: the fragments it pushes, in order.
RECURSIVE LineRun(_, _, _, _, _)
LineRun(st, ax0, ay0, ax1, ay1) ==
    IF st.done THEN st.pts
    ELSE LineRun(LineIter(st, ax0, ay0, ax1, ay1), ax0, ay0, ax1, ay1)

draw_line(ax0, ay0, ax1, ay1) ==
    LineRun(LineStart(ax0, ay0, ax1, ay1), ax0, ay0, ax1, ay1)


\* A call of draw_line with any endpoints of the bounded range.
LineInit ==
    /\ x0 \in LineCoords /\ y0 \in LineCoords
    /\ x1 \in LineCoords /\ y1 \in LineCoords
    /\ x = x0 /\ y = y0
    /\ err = LineStart(x0, y0, x1, y1).err
    /\ linebuf = <<>>
    /\ lpc = "loop"
    \* the parts this specification leaves idle
    /\ vertices = <<>>
    /\ px = 0 /\ py = 0
    /\ inside_fwd = FALSE /\ inside_rev = FALSE
    /\ qpc = "idle"
    /\ width = 0 /\ height = 0
    /\ buffer = <<>> /\ bi = 1
    /\ z_buffer = <<>> /\ char_buffer = <<>>
    /\ pass = 1
    /\ first_z = <<>> /\ first_char = <<>>
    /\ mpc = "idle"
    /\ output = <<>>
    /\ current_color = "None"
    /\ row = 0 /\ col = 0
    /\ angles = <<>>
    /\ transformed = <<>>
    /\ tscale = 1
    /\ face_depths = <<>>
    /\ fi = 1 /\ ei = 1
    /\ skipped = {}
    /\ mainpc = "idle"
    /\ cols = 0 /\ lines = 0
    /\ screen = NoScreen
    /\ frames = 0
    /\ exit_cause = "None"
    /\ query_failed = FALSE
    /\ rendered = FALSE /\ wrote = FALSE

LineStep ==
    /\ lpc = "loop"
    /\ LET st == LineIter([x |-> x, y |-> y, err |-> err, pts |-> linebuf,
                           done |-> FALSE], x0, y0, x1, y1)
       IN  /\ x' = st.x
           /\ y' = st.y
           /\ err' = st.err
           /\ linebuf' = st.pts
           /\ lpc' = IF st.done THEN "done" ELSE "loop"
    /\ UNCHANGED <<x0, y0, x1, y1>>
    /\ UNCHANGED <<quadVars, gridVars, serialVars, cubeVars, mainVars>>

(***************************************************************************)
(* point_in_quad (main.rs 148-187).                                        *)
(***************************************************************************)
\* cross of edge i -> (i+1) % n with the point (lines 155-161, 173-179).
EdgeCross(ppx, ppy, vs, i) ==
    LET n == Len(vs)
        j == (i % n) + 1          \* 1-based (i + 1) % n
        edge_x == vs[j][1] - vs[i][1]
        edge_y == vs[j][2] - vs[i][2]
        point_x == ppx - vs[i][1]
        point_y == ppy - vs[i][2]
    IN  edge_x * point_y - edge_y * point_x

\* A variant of point_in_quad without the second pass.
point_in_quad_one_winding(ppx, ppy, vs) ==
    IF Len(vs) < 3 THEN FALSE
    ELSE \A i \in 1..Len(vs) : ~(EdgeCross(ppx, ppy, vs, i) < 0)

point_in_quad(ppx, ppy, vs) ==
    IF Len(vs) < 3 THEN FALSE
    ELSE IF \A i \in 1..Len(vs) : ~(EdgeCross(ppx, ppy, vs, i) < 0) THEN TRUE
    ELSE \A i \in 1..Len(vs) : ~(EdgeCross(ppx, ppy, vs, i) > 0)

Reverse(s) == [i \in 1..Len(s) |-> s[Len(s) + 1 - i]]


QuadPoints == QuadCoords \X QuadCoords

QuadInit ==
    /\ vertices \in [1..4 -> QuadPoints]
    /\ px = 0 /\ py = 0
    /\ inside_fwd = FALSE /\ inside_rev = FALSE
    /\ qpc = "ready"
    \* the parts this specification leaves idle
    /\ x0 = 0 /\ y0 = 0 /\ x1 = 0 /\ y1 = 0
    /\ x = 0 /\ y = 0 /\ err = 0
    /\ linebuf = <<>>
    /\ lpc = "idle"
    /\ width = 0 /\ height = 0
    /\ buffer = <<>> /\ bi = 1
    /\ z_buffer = <<>> /\ char_buffer = <<>>
    /\ pass = 1
    /\ first_z = <<>> /\ first_char = <<>>
    /\ mpc = "idle"
    /\ output = <<>>
    /\ current_color = "None"
    /\ row = 0 /\ col = 0
    /\ angles = <<>>
    /\ transformed = <<>>
    /\ tscale = 1
    /\ face_depths = <<>>
    /\ fi = 1 /\ ei = 1
    /\ skipped = {}
    /\ mainpc = "idle"
    /\ cols = 0 /\ lines = 0
    /\ screen = NoScreen
    /\ frames = 0
    /\ exit_cause = "None"
    /\ query_failed = FALSE
    /\ rendered = FALSE /\ wrote = FALSE

\* point_in_quad called on a point, for the quad as listed and for the same
\* vertices listed in the opposite direction.
QuadTest ==
    /\ qpc = "ready"
    /\ \E p \in QuadPoints :
        /\ px' = p[1]
        /\ py' = p[2]
        /\ inside_fwd' = point_in_quad(p[1], p[2], vertices)
        /\ inside_rev' = point_in_quad(p[1], p[2], Reverse(vertices))
    /\ qpc' = "tested"
    /\ UNCHANGED vertices
    /\ UNCHANGED <<lineVars, gridVars, serialVars, cubeVars, mainVars>>

(***************************************************************************)
(* render_cube: the z-buffer merge (main.rs 274-286).                      *)
(***************************************************************************)
\* f32::MAX, the initial depth of every cell (line 275).  Depths are held
\* as integers; this value stands above every depth a fragment can carry.
F32_MAX == 1000000000

Blank == <<" ", "Black">>

\* vec![f32::MAX; width * height] and vec![(' ', Color::Black); width * height]
NewZBuffer(w, h) == [i \in 0..(w * h - 1) |-> F32_MAX]
NewCharBuffer(w, h) == [i \in 0..(w * h - 1) |-> Blank]

\* A variant of the bounds test that admits x = width.
InBoundsInclusive(f, w, h) == f.x >= 0 /\ f.x <= w /\ f.y >= 0 /\ f.y < h
\* x >= 0 && x < width as i32 && y >= 0 && y < height as i32   (line 279)
InBounds(f, w, h) == f.x >= 0 /\ f.x < w /\ f.y >= 0 /\ f.y < h

\* idx = y as usize * width + x as usize   (line 280)
CellIndex(f, w) == f.y * w + f.x

\* A variant of the depth test that also passes on equal depths.
DepthTestOrEqual(z, cur) == z <= cur
\* z < z_buffer[idx]   (line 281)
DepthTest(z, cur) == z < cur

\* A variant of the loop body that writes the glyph when the depth test
\* fails instead of when it passes.
MergeFragmentGlyphOnFail(zb, cb, f, w, h) ==
    IF ~InBounds(f, w, h)
    THEN [z_buffer |-> zb, char_buffer |-> cb, panic |-> FALSE]
    ELSE LET idx == CellIndex(f, w)
         IN  IF idx \notin DOMAIN zb
             THEN [z_buffer |-> zb, char_buffer |-> cb, panic |-> TRUE]
             ELSE IF DepthTest(f.z, zb[idx])
             THEN [z_buffer |-> [zb EXCEPT ![idx] = f.z],
                   char_buffer |-> cb, panic |-> FALSE]
             ELSE [z_buffer |-> zb,
                   char_buffer |-> [cb EXCEPT ![idx] = <<f.c, f.color>>],
                   panic |-> FALSE]

\* The body of the merge loop for one fragment (lines 279-285).  Indexing a
\* Vec out of its range panics.
MergeFragment(zb, cb, f, w, h) ==
    IF ~InBounds(f, w, h)
    THEN [z_buffer |-> zb, char_buffer |-> cb, panic |-> FALSE]
    ELSE LET idx == CellIndex(f, w)
         IN  IF idx \notin DOMAIN zb
             THEN [z_buffer |-> zb, char_buffer |-> cb, panic |-> TRUE]
             ELSE IF DepthTest(f.z, zb[idx])
             THEN [z_buffer |-> [zb EXCEPT ![idx] = f.z],
                   char_buffer |-> [cb EXCEPT ![idx] = <<f.c, f.color>>],
                   panic |-> FALSE]
             ELSE [z_buffer |-> zb, char_buffer |-> cb, panic |-> FALSE]


\* The loop of lines 278-286 over buf[lo..hi], from the grids g.  The fold
\* is split in halves; the fragments are taken in the order of buf.
RECURSIVE MergeRange(_, _, _, _, _, _)
MergeRange(g, buf, lo, hi, w, h) ==
    IF lo > hi \/ g.panic THEN g
    ELSE IF lo = hi
    THEN MergeFragment(g.z_buffer, g.char_buffer, buf[lo], w, h)
    ELSE MergeRange(MergeRange(g, buf, lo, (lo + hi) \div 2, w, h),
                    buf, ((lo + hi) \div 2) + 1, hi, w, h)

\* The glyph and colour of the i-th fragment of a stream of the merge
\* model.  The merge never reads them, so each fragment carries its own.
Payloads == << <<"@", "Red">>, <<"#", "White">>, <<".", "Green">>,
               <<" ", "Blue">> >>
PayloadOf(i) == Payloads[((i - 1) % Len(Payloads)) + 1]

\* A stream of n fragments whose coordinates lie in or one cell around a
\* w x h grid.
Streams(n, w, h) ==
    { [i \in 1..n |-> [x |-> t[i][1], y |-> t[i][2], z |-> t[i][3],
                       c |-> PayloadOf(i)[1], color |-> PayloadOf(i)[2]]] :
        t \in [1..n -> ((0 - 1)..w) \X ((0 - 1)..h) \X (1..MaxZ)] }

\* lines 274-276 on any grid size, with any fragment stream in buffer.
MergeInit ==
    /\ width \in GridDims
    /\ height \in GridDims
    /\ \E n \in 0..MaxFrags : buffer \in Streams(n, width, height)
    /\ bi = 1
    /\ z_buffer = NewZBuffer(width, height)
    /\ char_buffer = NewCharBuffer(width, height)
    /\ pass = 1
    /\ first_z = <<>> /\ first_char = <<>>
    /\ mpc = "merge"
    \* the parts this specification leaves idle
    /\ x0 = 0 /\ y0 = 0 /\ x1 = 0 /\ y1 = 0
    /\ x = 0 /\ y = 0 /\ err = 0
    /\ linebuf = <<>>
    /\ lpc = "idle"
    /\ vertices = <<>>
    /\ px = 0 /\ py = 0
    /\ inside_fwd = FALSE /\ inside_rev = FALSE
    /\ qpc = "idle"
    /\ output = <<>>
    /\ current_color = "None"
    /\ row = 0 /\ col = 0
    /\ angles = <<>>
    /\ transformed = <<>>
    /\ tscale = 1
    /\ face_depths = <<>>
    /\ fi = 1 /\ ei = 1
    /\ skipped = {}
    /\ mainpc = "idle"
    /\ cols = 0 /\ lines = 0
    /\ screen = NoScreen
    /\ frames = 0
    /\ exit_cause = "None"
    /\ query_failed = FALSE
    /\ rendered = FALSE /\ wrote = FALSE

\* One iteration of `for (x, y, z, c, color) in buffer` (lines 278-286).
MergeNext ==
    /\ mpc = "merge"
    /\ bi <= Len(buffer)
    /\ LET r == MergeFragment(z_buffer, char_buffer, buffer[bi], width, height)
       IN  /\ z_buffer' = r.z_buffer
           /\ char_buffer' = r.char_buffer
           /\ mpc' = IF r.panic THEN "panic" ELSE "merge"
    /\ bi' = bi + 1
    /\ UNCHANGED <<width, height, buffer, pass, first_z, first_char>>
    /\ UNCHANGED <<lineVars, quadVars, serialVars, cubeVars, mainVars>>

\* The loop has consumed the stream.
MergeEnd ==
    /\ mpc = "merge"
    /\ bi > Len(buffer)
    /\ mpc' = "merged"
    /\ first_z' = IF pass = 1 THEN z_buffer ELSE first_z
    /\ first_char' = IF pass = 1 THEN char_buffer ELSE first_char
    /\ UNCHANGED <<width, height, buffer, bi, z_buffer, char_buffer, pass>>
    /\ UNCHANGED <<lineVars, quadVars, serialVars, cubeVars, mainVars>>

\* The same stream submitted again to the loop of lines 278-286, the grids
\* kept as the first merge left them.
Resubmit ==
    /\ mpc = "merged"
    /\ pass = 1
    /\ pass' = 2
    /\ bi' = 1
    /\ mpc' = "merge"
    /\ UNCHANGED <<width, height, buffer, z_buffer, char_buffer, first_z,
                   first_char>>
    /\ UNCHANGED <<lineVars, quadVars, serialVars, cubeVars, mainVars>>

(***************************************************************************)
(* render_cube: the serialisation (main.rs 288-316).  The frame is a       *)
(* sequence of tokens: <<"fg", colour>> for SetForegroundColor(colour),    *)
(* <<"reset", "">> for ResetColor, <<"ch", c>> for a pushed character.     *)
(***************************************************************************)
TokFg(color) == <<"fg", color>>
TokReset == <<"reset", "">>
TokCh(c) == <<"ch", c>>

\* A variant of the loop body that emits ResetColor on a blank cell and
\* leaves current_color as it was.
SerializeCellKeepColor(out, cur, cell) ==
    LET c == cell[1]
        color == cell[2]
    IN  IF c # " "
        THEN IF cur # color
             THEN [output |-> out \o <<TokFg(color), TokCh(c)>>,
                   current_color |-> color]
             ELSE [output |-> Append(out, TokCh(c)), current_color |-> cur]
        ELSE IF cur # "None"
             THEN [output |-> out \o <<TokReset, TokCh(" ")>>,
                   current_color |-> cur]
             ELSE [output |-> Append(out, TokCh(" ")), current_color |-> cur]

\* The body of the loops for one cell (lines 294-308); cur is "None" or
\* the colour c of Some(c).
SerializeCell(out, cur, cell) ==
    LET c == cell[1]
        color == cell[2]
    IN  IF c # " "
        THEN IF cur # color
             THEN [output |-> out \o <<TokFg(color), TokCh(c)>>,
                   current_color |-> color]
             ELSE [output |-> Append(out, TokCh(c)), current_color |-> cur]
        ELSE IF cur # "None"
             THEN [output |-> out \o <<TokReset, TokCh(" ")>>,
                   current_color |-> "None"]
             ELSE [output |-> Append(out, TokCh(" ")), current_color |-> cur]


\* The cells a grid of the serialisation model may hold: the blank of
\* line 276, edge and fill glyphs, and a fill whose shade is the space.
Cells == {Blank, <<"#", "White">>, <<"@", "Red">>, <<".", "Red">>,
          <<" ", "Blue">>}

\* lines 289-290 on any grid of at most MaxCells cells.
SerialInit ==
    /\ width \in 0..MaxCells
    /\ height \in 0..MaxCells
    /\ width * height <= MaxCells
    /\ char_buffer \in [0..(width * height - 1) -> Cells]
    /\ z_buffer = NewZBuffer(width, height)
    /\ buffer = <<>> /\ bi = 1
    /\ pass = 1
    /\ first_z = <<>> /\ first_char = <<>>
    /\ mpc = "serial"
    /\ output = <<>>
    /\ current_color = "None"
    /\ row = 0 /\ col = 0
    \* the parts this specification leaves idle
    /\ x0 = 0 /\ y0 = 0 /\ x1 = 0 /\ y1 = 0
    /\ x = 0 /\ y = 0 /\ err = 0
    /\ linebuf = <<>>
    /\ lpc = "idle"
    /\ vertices = <<>>
    /\ px = 0 /\ py = 0
    /\ inside_fwd = FALSE /\ inside_rev = FALSE
    /\ qpc = "idle"
    /\ angles = <<>>
    /\ transformed = <<>>
    /\ tscale = 1
    /\ face_depths = <<>>
    /\ fi = 1 /\ ei = 1
    /\ skipped = {}
    /\ mainpc = "idle"
    /\ cols = 0 /\ lines = 0
    /\ screen = NoScreen
    /\ frames = 0
    /\ exit_cause = "None"
    /\ query_failed = FALSE
    /\ rendered = FALSE /\ wrote = FALSE

\* One iteration of the inner loop (lines 293-309), then the loop headers.
SerialNext ==
    /\ mpc = "serial"
    /\ row < height /\ col < width
    /\ LET r == SerializeCell(output, current_color,
                              char_buffer[row * width + col])
       IN  /\ output' = r.output
           /\ current_color' = r.current_color
    /\ IF col + 1 < width
       THEN col' = col + 1 /\ row' = row
       ELSE col' = 0 /\ row' = row + 1
    /\ UNCHANGED <<lineVars, quadVars, cubeVars, mainVars>>
    /\ UNCHANGED <<width, height, buffer, bi, z_buffer, char_buffer, pass,
                   first_z, first_char, mpc>>

\* The loops are over: the closing ResetColor (lines 312-316).
SerialEnd ==
    /\ mpc = "serial"
    /\ row >= height \/ width = 0
    /\ output' = IF current_color # "None" THEN Append(output, TokReset)
                 ELSE output
    /\ mpc' = "done"
    /\ UNCHANGED <<current_color, row, col>>
    /\ UNCHANGED <<lineVars, quadVars, cubeVars, mainVars>>
    /\ UNCHANGED <<width, height, buffer, bi, z_buffer, char_buffer, pass,
                   first_z, first_char>>

(***************************************************************************)
(* The cube tables (main.rs 17-44) and SHADE_CHARS (line 200).  The tables *)
(* are indexed from 0 in the source and from 1 here: Vertex, Edge and Face *)
(* take the source's index.                                                *)
(***************************************************************************)
CUBE_VERTICES ==
    << <<-1, -1, -1>>, <<1, -1, -1>>, <<1, 1, -1>>, <<-1, 1, -1>>,
       <<-1, -1, 1>>, <<1, -1, 1>>, <<1, 1, 1>>, <<-1, 1, 1>> >>

CUBE_EDGES ==
    << <<0, 1>>, <<1, 2>>, <<2, 3>>, <<3, 0>>,
       <<4, 5>>, <<5, 6>>, <<6, 7>>, <<7, 4>>,
       <<0, 4>>, <<1, 5>>, <<2, 6>>, <<3, 7>> >>

CUBE_FACES ==
    << [indices |-> <<0, 1, 2, 3>>, color |-> "Red"],
       [indices |-> <<4, 5, 6, 7>>, color |-> "Green"],
       [indices |-> <<0, 4, 7, 3>>, color |-> "Blue"],
       [indices |-> <<1, 5, 6, 2>>, color |-> "Yellow"],
       [indices |-> <<3, 2, 6, 7>>, color |-> "Magenta"],
       [indices |-> <<0, 1, 5, 4>>, color |-> "Cyan"] >>

SHADE_CHARS == <<" ", ".", ":", "-", "=", "+", "#", "@">>

FaceIds == 0..(Len(CUBE_FACES) - 1)
Face(i) == CUBE_FACES[i + 1]

\* let fov = 40.0; let distance = 5.0;   (lines 204-205)
fov == 40
distance == 5

(***************************************************************************)
(* Rotation (main.rs 46-74).  An angle is [c, s, d] with cos = c/d and     *)
(* sin = s/d exactly; a point is an integer triple over a denominator,     *)
(* which a rotation multiplies by d.                                       *)
(***************************************************************************)
rotate_x(p, a) ==
    <<p[1] * a.d, p[2] * a.c - p[3] * a.s, p[2] * a.s + p[3] * a.c>>

rotate_y(p, a) ==
    <<p[1] * a.c + p[3] * a.s, p[2] * a.d, (0 - p[1]) * a.s + p[3] * a.c>>

rotate_z(p, a) ==
    <<p[1] * a.c - p[2] * a.s, p[1] * a.s + p[2] * a.c, p[3] * a.d>>

\* The angle 0 and the angle of the 3-4-5 triangle.
AngleZero == [c |-> 1, s |-> 0, d |-> 1]
AngleTheta == [c |-> 3, s |-> 4, d |-> 5]

\* `as i32` on a quotient n / d with d > 0: truncation toward zero.
TruncDiv(n, d) == IF n >= 0 THEN n \div d ELSE 0 - ((0 - n) \div d)

(***************************************************************************)
(* project (main.rs 76-85) of a point over the denominator sc.  The result *)
(* is <<>> (None) or <<x, y, z>> with z over sc.                           *)
(*   x = point[0] * (fov / z) * 2 + width / 2                              *)
(*     = (4 * fov * P0 + width * Z) / (2 * Z)       for point = P / sc     *)
(*   y = -point[1] * (fov / z) + height / 2                                *)
(*     = (height * Z - 2 * fov * P1) / (2 * Z)                             *)
(***************************************************************************)
project(point, sc, w, h) ==
    LET z == point[3] + distance * sc
    IN  IF 10 * z <= sc THEN <<>>
        ELSE <<TruncDiv(4 * fov * point[1] + w * z, 2 * z),
               TruncDiv(h * z - 2 * fov * point[2], 2 * z),
               z>>

\* Depths of fragments are held over the denominator DepthDen * sc, which
\* takes the division by 3 or 4 of line 136 and the /2.0 and -0.1 of
\* lines 269-270.
DepthDen == 3 * 4 * 5

(***************************************************************************)
(* get_face_normal (main.rs 189-198), over the square of the denominator.  *)
(***************************************************************************)
get_face_normal(v0, v1, v2) ==
    LET edge1 == <<v1[1] - v0[1], v1[2] - v0[2], v1[3] - v0[3]>>
        edge2 == <<v2[1] - v0[1], v2[2] - v0[2], v2[3] - v0[3]>>
    IN  <<edge1[2] * edge2[3] - edge1[3] * edge2[2],
          edge1[3] * edge2[1] - edge1[1] * edge2[3],
          edge1[1] * edge2[2] - edge1[2] * edge2[1]>>

(***************************************************************************)
(* fill_face (main.rs 118-146).                                            *)
(***************************************************************************)
SeqMin(s, k) == CHOOSE m \in {s[i][k] : i \in 1..Len(s)} :
                    \A i \in 1..Len(s) : m <= s[i][k]
SeqMax(s, k) == CHOOSE m \in {s[i][k] : i \in 1..Len(s)} :
                    \A i \in 1..Len(s) : m >= s[i][k]
SumZ(s) == IF Len(s) = 4 THEN s[1][3] + s[2][3] + s[3][3] + s[4][3]
           ELSE IF Len(s) = 3 THEN s[1][3] + s[2][3] + s[3][3]
           ELSE 0

\* avg_z (line 136), over DepthDen * sc.
FillDepth(projected) == (DepthDen \div Len(projected)) * SumZ(projected)

fill_face(verts, sc, w, h, color, shade_char) ==
    LET all == [i \in 1..4 |-> project(verts[i], sc, w, h)]
        projected == SelectSeq(all, LAMBDA p : p # <<>>)
    IN  IF Len(projected) < 3 THEN <<>>
        ELSE LET min_x == SeqMin(projected, 1)
                 max_x == SeqMax(projected, 1)
                 min_y == SeqMin(projected, 2)
                 max_y == SeqMax(projected, 2)
                 bw == max_x - min_x + 1
                 bh == max_y - min_y + 1
                 avg_z == FillDepth(projected)
                 \* the cells of the bounding box in the order of the loops
                 box == [i \in 1..(bw * bh) |->
                            <<min_x + ((i - 1) % bw), min_y + ((i - 1) \div bw)>>]
                 inq == SelectSeq(box,
                            LAMBDA q : point_in_quad(q[1], q[2], projected))
             IN  [i \in 1..Len(inq) |->
                    [x |-> inq[i][1], y |-> inq[i][2], z |-> avg_z,
                     c |-> shade_char, color |-> color]]

(***************************************************************************)
(* render_cube (main.rs 202-317): transform, face order, culling, shading, *)
(* edges.                                                                  *)
(***************************************************************************)
\* lines 208-215
Transform(a) ==
    [i \in 1..Len(CUBE_VERTICES) |->
        rotate_z(rotate_y(rotate_x(CUBE_VERTICES[i], a[1]), a[2]), a[3])]

\* One entry of face_depths (lines 221-231); center_z is held as the sum
\* of the four depths, that is over 4 * sc.
FaceEntry(i, tr) ==
    LET ix == Face(i).indices
        v0 == tr[ix[1] + 1]
        v1 == tr[ix[2] + 1]
        v2 == tr[ix[3] + 1]
    IN  [face |-> i,
         center_z |-> v0[3] + v1[3] + tr[ix[3] + 1][3] + tr[ix[4] + 1][3],
         normal |-> get_face_normal(v0, v1, v2)]

\* sort_by(|a, b| b.1.partial_cmp(&a.1)) (line 235): a stable sort, farthest
\* first.  The place of an entry is the number of entries before it.
SortBackToFront(fd) ==
    LET before(i) == {j \in 1..Len(fd) :
                         \/ fd[j].center_z > fd[i].center_z
                         \/ fd[j].center_z = fd[i].center_z /\ j < i}
    IN  [k \in 1..Len(fd) |->
            fd[CHOOSE i \in 1..Len(fd) : Cardinality(before(i)) = k - 1]]

\* if normal[2] < 0.0 { continue; }   (line 242)
Culled(normal) == normal[3] < 0

\* shade_idx (lines 245-250): intensity = max(dot / len, 0) with
\* dot = normal[2], and (intensity * 7) as usize, at most 7.  The index is
\* the largest k with k * len <= 7 * dot.
ShadeIndex(normal) ==
    LET dot == normal[3]
        len2 == normal[1] * normal[1] + normal[2] * normal[2]
                + normal[3] * normal[3]
        top == Len(SHADE_CHARS) - 1
    IN  IF len2 = 0 \/ dot <= 0 THEN 0
        ELSE CHOOSE k \in 0..top :
                /\ k * k * len2 <= top * top * dot * dot
                /\ \A m \in 0..top :
                      m * m * len2 <= top * top * dot * dot => m <= k

\* A variant of the depth of an edge without the 0.1 bias.
EdgeDepthNoBias(p1, p2, sc) == (DepthDen \div 2) * (p1[3] + p2[3])
\* avg_z - 0.1 (lines 269-270), over DepthDen * sc.
EdgeDepth(p1, p2, sc) ==
    (DepthDen \div 2) * (p1[3] + p2[3]) - (DepthDen \div 10) * sc

\* The fragments of one edge (lines 265-271).
EdgeFragments(e, tr, sc, w, h) ==
    LET p1 == project(tr[e[1] + 1], sc, w, h)
        p2 == project(tr[e[2] + 1], sc, w, h)
    IN  IF p1 = <<>> \/ p2 = <<>> THEN <<>>
        ELSE LET pts == draw_line(p1[1], p1[2], p2[1], p2[2])
             IN  [i \in 1..Len(pts) |->
                    [x |-> pts[i][1], y |-> pts[i][2],
                     z |-> EdgeDepth(p1, p2, sc), c |-> "#",
                     color |-> "White"]]


\* The half extents of the nearest face at angle 0 on the screen, and the
\* columns and rows it spans.
NearHalfW == (2 * fov) \div (distance - 1)
NearHalfH == fov \div (distance - 1)
ExtentW == 2 * NearHalfW + 1
ExtentH == 2 * NearHalfH + 1

\* render_cube is run on buffers of the extent and of up to MaxExtra columns
\* and rows more.
MaxExtra == 1
RenderWidths == ExtentW..(ExtentW + MaxExtra)
RenderHeights == ExtentH..(ExtentH + MaxExtra)

Orientations ==
    { <<AngleZero, AngleZero, AngleZero>>,
      <<AngleTheta, AngleZero, AngleZero>>,
      <<AngleZero, AngleTheta, AngleZero>> }

\* A call of render_cube (line 203).
RenderInit ==
    /\ width \in RenderWidths
    /\ height \in RenderHeights
    /\ angles \in Orientations
    /\ transformed = <<>>
    /\ tscale = 1
    /\ face_depths = <<>>
    /\ fi = 1 /\ ei = 1
    /\ skipped = {}
    /\ buffer = <<>> /\ bi = 1
    /\ z_buffer = <<>> /\ char_buffer = <<>>
    /\ pass = 1
    /\ first_z = <<>> /\ first_char = <<>>
    /\ mpc = "transform"
    /\ output = <<>>
    /\ current_color = "None"
    /\ row = 0 /\ col = 0
    \* the parts this specification leaves idle
    /\ x0 = 0 /\ y0 = 0 /\ x1 = 0 /\ y1 = 0
    /\ x = 0 /\ y = 0 /\ err = 0
    /\ linebuf = <<>>
    /\ lpc = "idle"
    /\ vertices = <<>>
    /\ px = 0 /\ py = 0
    /\ inside_fwd = FALSE /\ inside_rev = FALSE
    /\ qpc = "idle"
    /\ mainpc = "idle"
    /\ cols = 0 /\ lines = 0
    /\ screen = NoScreen
    /\ frames = 0
    /\ exit_cause = "None"
    /\ query_failed = FALSE
    /\ rendered = FALSE /\ wrote = FALSE

\* lines 207-235: the transformed vertices and the sorted face list.
RenderTransform ==
    /\ mpc = "transform"
    /\ transformed' = Transform(angles)
    /\ tscale' = angles[1].d * angles[2].d * angles[3].d
    /\ face_depths' = SortBackToFront(
                        [k \in 1..Len(CUBE_FACES) |->
                            FaceEntry(k - 1, Transform(angles))])
    /\ mpc' = "faces"
    /\ UNCHANGED <<angles, fi, ei, skipped>>
    /\ UNCHANGED <<width, height, buffer, bi, z_buffer, char_buffer, pass,
                   first_z, first_char>>
    /\ UNCHANGED <<lineVars, quadVars, serialVars, mainVars>>

\* One iteration of the loop over face_depths (lines 238-261).
RenderFace ==
    /\ mpc = "faces"
    /\ fi <= Len(face_depths)
    /\ LET fd == face_depths[fi]
           ix == Face(fd.face).indices
           face_verts == [k \in 1..4 |-> transformed[ix[k] + 1]]
       IN  IF Culled(fd.normal)
           THEN /\ skipped' = skipped \cup {fd.face}
                /\ buffer' = buffer
           ELSE /\ skipped' = skipped
                /\ buffer' = buffer \o
                     fill_face(face_verts, tscale, width, height,
                               Face(fd.face).color,
                               SHADE_CHARS[ShadeIndex(fd.normal) + 1])
    /\ fi' = fi + 1
    /\ UNCHANGED <<angles, transformed, tscale, face_depths, ei>>
    /\ UNCHANGED <<width, height, bi, z_buffer, char_buffer, pass, first_z,
                   first_char, mpc>>
    /\ UNCHANGED <<lineVars, quadVars, serialVars, mainVars>>

\* The face loop is over.
RenderFacesEnd ==
    /\ mpc = "faces"
    /\ fi > Len(face_depths)
    /\ mpc' = "edges"
    /\ UNCHANGED cubeVars
    /\ UNCHANGED <<width, height, buffer, bi, z_buffer, char_buffer, pass,
                   first_z, first_char>>
    /\ UNCHANGED <<lineVars, quadVars, serialVars, mainVars>>

\* One iteration of the loop over CUBE_EDGES (lines 264-272).
RenderEdge ==
    /\ mpc = "edges"
    /\ ei <= Len(CUBE_EDGES)
    /\ buffer' = buffer \o
                   EdgeFragments(CUBE_EDGES[ei], transformed, tscale, width,
                                 height)
    /\ ei' = ei + 1
    /\ UNCHANGED <<angles, transformed, tscale, face_depths, fi, skipped>>
    /\ UNCHANGED <<width, height, bi, z_buffer, char_buffer, pass, first_z,
                   first_char, mpc>>
    /\ UNCHANGED <<lineVars, quadVars, serialVars, mainVars>>

\* The edge loop is over: the grids are created (lines 275-276).
RenderGrids ==
    /\ mpc = "edges"
    /\ ei > Len(CUBE_EDGES)
    /\ z_buffer' = NewZBuffer(width, height)
    /\ char_buffer' = NewCharBuffer(width, height)
    /\ bi' = 1
    /\ mpc' = "merge"
    /\ UNCHANGED cubeVars
    /\ UNCHANGED <<width, height, buffer, pass, first_z, first_char>>
    /\ UNCHANGED <<lineVars, quadVars, serialVars, mainVars>>

\* The merge loop of render_cube on the whole stream (lines 278-286).
RenderMerge ==
    /\ mpc = "merge"
    /\ LET r == MergeRange([z_buffer |-> z_buffer, char_buffer |-> char_buffer,
                            panic |-> FALSE],
                           buffer, bi, Len(buffer), width, height)
       IN  /\ z_buffer' = r.z_buffer
           /\ char_buffer' = r.char_buffer
           /\ mpc' = IF r.panic THEN "panic" ELSE "merged"
    /\ bi' = Len(buffer) + 1
    /\ UNCHANGED <<width, height, buffer, pass, first_z, first_char>>
    /\ UNCHANGED cubeVars
    /\ UNCHANGED <<lineVars, quadVars, serialVars, mainVars>>

\* After the merge of render_cube: lines 289-290.
RenderSerial ==
    /\ mpc = "merged"
    /\ output' = <<>>
    /\ current_color' = "None"
    /\ row' = 0 /\ col' = 0
    /\ mpc' = "serial"
    /\ UNCHANGED cubeVars
    /\ UNCHANGED <<width, height, buffer, bi, z_buffer, char_buffer, pass,
                   first_z, first_char>>
    /\ UNCHANGED <<lineVars, quadVars, mainVars>>

(***************************************************************************)
(* usable_space (main.rs 7-15) and main (main.rs 319-345).  A query of the *)
(* terminal answers Err or a pair; render_cube is total and is held here   *)
(* as the size it was called with.                                         *)
(***************************************************************************)
\* u16::saturating_sub
SaturatingSub(a, b) == IF a >= b THEN a - b ELSE 0

\* A variant of usable_space that answers an empty area when a query fails.
usable_space_or_empty(size_res, position_res) ==
    IF size_res = Err \/ position_res = Err THEN <<0, 0>>
    ELSE <<SaturatingSub(size_res[1], position_res[1]),
           SaturatingSub(size_res[2], position_res[2] + 1)>>

\* usable_space: size()? then position()?, then the two subtractions.
usable_space(size_res, position_res) ==
    IF size_res = Err THEN Err
    ELSE IF position_res = Err THEN Err
    ELSE <<SaturatingSub(size_res[1], position_res[1]),
           SaturatingSub(size_res[2], position_res[2] + 1)>>

TermPairs == (0..MaxTerm) \X (0..MaxTerm)
QueryResults == TermPairs \cup {Err}


\* lines 320-321, at the head of the loop.
MainInit ==
    /\ mainpc = "query"
    /\ cols = 0 /\ lines = 0
    /\ screen = NoScreen
    /\ frames = 0
    /\ exit_cause = "None"
    /\ query_failed = FALSE
    /\ rendered = FALSE /\ wrote = FALSE
    \* the parts this specification leaves idle
    /\ x0 = 0 /\ y0 = 0 /\ x1 = 0 /\ y1 = 0
    /\ x = 0 /\ y = 0 /\ err = 0
    /\ linebuf = <<>>
    /\ lpc = "idle"
    /\ vertices = <<>>
    /\ px = 0 /\ py = 0
    /\ inside_fwd = FALSE /\ inside_rev = FALSE
    /\ qpc = "idle"
    /\ width = 0 /\ height = 0
    /\ buffer = <<>> /\ bi = 1
    /\ z_buffer = <<>> /\ char_buffer = <<>>
    /\ pass = 1
    /\ first_z = <<>> /\ first_char = <<>>
    /\ mpc = "idle"
    /\ output = <<>>
    /\ current_color = "None"
    /\ row = 0 /\ col = 0
    /\ angles = <<>>
    /\ transformed = <<>>
    /\ tscale = 1
    /\ face_depths = <<>>
    /\ fi = 1 /\ ei = 1
    /\ skipped = {}

\* let (cols, lines) = usable_space()?;   (line 324)
MainQuery ==
    /\ mainpc = "query"
    /\ \E size_res \in QueryResults, position_res \in QueryResults :
        LET r == usable_space(size_res, position_res)
        IN  /\ query_failed' = (size_res = Err \/ position_res = Err)
            /\ IF r = Err
               THEN /\ mainpc' = "exited"
                    /\ exit_cause' = "query"
                    /\ UNCHANGED <<cols, lines>>
               ELSE /\ mainpc' = "render"
                    /\ cols' = r[1]
                    /\ lines' = r[2]
                    /\ UNCHANGED exit_cause
    /\ rendered' = FALSE
    /\ wrote' = FALSE
    /\ screen' = NoScreen
    /\ UNCHANGED frames
    /\ UNCHANGED <<lineVars, quadVars, gridVars, serialVars, cubeVars>>

\* let screen = render_cube(cols as usize, lines as usize, ...);   (line 332)
MainRender ==
    /\ mainpc = "render"
    /\ screen' = <<cols, lines>>
    /\ rendered' = TRUE
    /\ mainpc' = "print"
    /\ UNCHANGED <<cols, lines, frames, exit_cause, query_failed, wrote>>
    /\ UNCHANGED <<lineVars, quadVars, gridVars, serialVars, cubeVars>>

\* The two print! of lines 335-340: the frame is written, or print! panics
\* because the write to stdout fails.
MainPrint ==
    /\ mainpc = "print"
    /\ \E ok \in BOOLEAN :
        IF ok
        THEN /\ wrote' = TRUE
             /\ frames' = Min2(frames + 1, MaxFrames)
             /\ mainpc' = "flush"
             /\ UNCHANGED exit_cause
        ELSE /\ mainpc' = "exited"
             /\ exit_cause' = "print"
             /\ UNCHANGED <<wrote, frames>>
    /\ UNCHANGED <<cols, lines, screen, query_failed, rendered>>
    /\ UNCHANGED <<lineVars, quadVars, gridVars, serialVars, cubeVars>>

\* std::io::Write::flush(&mut std::io::stdout())?; and the next iteration
\* (lines 342-343).
MainFlush ==
    /\ mainpc = "flush"
    /\ \E ok \in BOOLEAN :
        IF ok
        THEN /\ mainpc' = "query"
             /\ UNCHANGED exit_cause
        ELSE /\ mainpc' = "exited"
             /\ exit_cause' = "flush"
    /\ UNCHANGED <<cols, lines, screen, frames, query_failed, rendered, wrote>>
    /\ UNCHANGED <<lineVars, quadVars, gridVars, serialVars, cubeVars>>

SpecLine == LineInit /\ [][LineStep]_vars
SpecQuad == QuadInit /\ [][QuadTest]_vars
MergeSpecNext == MergeNext \/ MergeEnd \/ Resubmit
SpecMerge == MergeInit /\ [][MergeSpecNext]_vars
SerialSpecNext == SerialNext \/ SerialEnd
SpecSerial == SerialInit /\ [][SerialSpecNext]_vars
RenderSpecNext ==
    \/ RenderTransform \/ RenderFace \/ RenderFacesEnd \/ RenderEdge
    \/ RenderGrids \/ RenderMerge \/ RenderSerial \/ SerialNext
    \/ SerialEnd
SpecRender == RenderInit /\ [][RenderSpecNext]_vars
MainSpecNext == MainQuery \/ MainRender \/ MainPrint \/ MainFlush
\* main is one thread that runs each statement to completion: a step that
\* can be taken is taken.
SpecMain == MainInit /\ [][MainSpecNext]_vars /\ WF_vars(MainSpecNext)

(***************************************************************************)
(* The properties.                                                         *)
(***************************************************************************)
\* A fragment lies in the width x height grid, and the index of the cell
\* (cx, cy) in the row-major layout the serialisation reads (line 294).
InGrid(f) == 0 <= f.x /\ f.x < width /\ 0 <= f.y /\ f.y < height
RowMajor(cx, cy) == cy * width + cx
GridCells == 0..(width * height - 1)

\* The fragments of the stream that target cell i, by emission index.
Targets(i) ==
    {k \in 1..Len(buffer) :
        InGrid(buffer[k]) /\ RowMajor(buffer[k].x, buffer[k].y) = i}

\* k is the fragment of smallest depth among ks, the earliest of them when
\* several share that depth.
NearestEarliest(k, ks) ==
    /\ k \in ks
    /\ \A j \in ks : \/ buffer[k].z < buffer[j].z
                     \/ buffer[k].z = buffer[j].z /\ k <= j

\* C1: once every fragment of the stream is merged, each cell holds the
\* depth, glyph and colour of the in-grid fragment of smallest depth that
\* targets it, the earliest emitted when several share that depth, whatever
\* the order of the stream; a cell that no fragment targets keeps the blank
\* and the maximum depth.
C1_NearestWins ==
    mpc = "merged" =>
        \A i \in GridCells :
            IF Targets(i) = {}
            THEN z_buffer[i] = F32_MAX /\ char_buffer[i] = Blank
            ELSE \E k \in Targets(i) :
                    /\ NearestEarliest(k, Targets(i))
                    /\ z_buffer[i] = buffer[k].z
                    /\ char_buffer[i] = <<buffer[k].c, buffer[k].color>>

\* A merged stream in which the nearer fragment of a cell came second, and
\* one cell is left untargeted.
C1_Witness ==
    /\ mpc = "merged" /\ pass = 1
    /\ Len(buffer) = 2
    /\ InGrid(buffer[1])
    /\ buffer[2].x = buffer[1].x /\ buffer[2].y = buffer[1].y
    /\ buffer[2].z < buffer[1].z
    /\ char_buffer[RowMajor(buffer[1].x, buffer[1].y)]
         = <<buffer[2].c, buffer[2].color>>
    /\ \E i \in GridCells : Targets(i) = {} /\ char_buffer[i] = Blank

\* C2: merging the same stream a second time into the grids the first
\* merge left changes neither the depth grid nor the glyph/colour grid.
C2_Idempotent ==
    (mpc = "merged" /\ pass = 2) =>
        z_buffer = first_z /\ char_buffer = first_char

\* A stream of two fragments, one of them written, has been merged twice.
C2_Witness ==
    /\ mpc = "merged" /\ pass = 2
    /\ Len(buffer) = 2
    /\ \E i \in GridCells : char_buffer[i] # Blank /\ Cardinality(Targets(i)) = 2

\* The number of fragments a line between the endpoints must have.
LineLen == Max2(Abs(x1 - x0), Abs(y1 - y0)) + 1
InBox(p) ==
    /\ Min2(x0, x1) <= p[1] /\ p[1] <= Max2(x0, x1)
    /\ Min2(y0, y1) <= p[2] /\ p[2] <= Max2(y0, y1)

\* C3: draw_line terminates: while the loop runs it has pushed fewer than
\* max(|x1-x0|, |y1-y0|) + 1 fragments, and each iteration pushes one; when
\* it ends it has pushed exactly that many, the first is (x0, y0), the last
\* is (x1, y1) and each lies in the bounding box of the endpoints.  From
\* (0,0) to (5,0) that is 6 fragments with y = 0 and x in 0..5, from (0,0)
\* to (0,0) one fragment.
C3_Bresenham ==
    /\ lpc = "loop" => Len(linebuf) < LineLen
    /\ lpc = "done" =>
        /\ Len(linebuf) = LineLen
        /\ linebuf[1] = <<x0, y0>>
        /\ linebuf[Len(linebuf)] = <<x1, y1>>
        /\ \A i \in 1..Len(linebuf) : InBox(linebuf[i])

\* A finished line that runs leftwards and is steeper than it is wide.
C3_Witness ==
    /\ lpc = "done"
    /\ x1 < x0 /\ y1 > y0
    /\ y1 - y0 > x0 - x1
    /\ Len(linebuf) = y1 - y0 + 1

\* Twice the signed area of the triangle a, b, c.
Area2(a, b, c) ==
    (b[1] - a[1]) * (c[2] - a[2]) - (b[2] - a[2]) * (c[1] - a[1])

\* The quad turns the same way at each of its four vertices.
Convex(vs) ==
    \/ \A i \in 1..4 : Area2(vs[i], vs[(i % 4) + 1], vs[((i + 1) % 4) + 1]) > 0
    \/ \A i \in 1..4 : Area2(vs[i], vs[(i % 4) + 1], vs[((i + 1) % 4) + 1]) < 0

\* p is strictly inside the convex quad: the four triangles p makes with
\* the sides have positive areas that add up to the area of the quad.
Interior(p, vs) ==
    /\ \A i \in 1..4 : Area2(p, vs[i], vs[(i % 4) + 1]) # 0
    /\ Abs(Area2(p, vs[1], vs[2])) + Abs(Area2(p, vs[2], vs[3]))
         + Abs(Area2(p, vs[3], vs[4])) + Abs(Area2(p, vs[4], vs[1]))
       = Abs(Area2(vs[1], vs[2], vs[3]) + Area2(vs[1], vs[3], vs[4]))

\* C4: point_in_quad answers the same for a quad and for the same vertices
\* listed in the opposite direction, and a point strictly inside a convex
\* quad tests inside under both listings.
C4_WindingIndependent ==
    qpc = "tested" =>
        /\ inside_fwd = inside_rev
        /\ (Convex(vertices) /\ Interior(<<px, py>>, vertices)) =>
              (inside_fwd /\ inside_rev)

\* An interior point of a convex quad listed so that the first pass of
\* point_in_quad fails, tested under both listings.
C4_Witness ==
    /\ qpc = "tested"
    /\ Convex(vertices)
    /\ Area2(vertices[1], vertices[2], vertices[3]) < 0
    /\ Interior(<<px, py>>, vertices)
    /\ inside_fwd /\ inside_rev

AtZero == angles = <<AngleZero, AngleZero, AngleZero>>

\* The face nearest the camera: the one of smallest centre depth.
NearestFace(f) ==
    \A g \in FaceIds :
        FaceEntry(f, transformed).center_z <= FaceEntry(g, transformed).center_z

\* The grid shows the rectangle l..r x t..b: edge glyphs on its border, fill
\* glyphs of colour fcolor inside it, blanks outside it.
ShowsFace(l, r, t, b, fcolor) ==
    /\ 0 <= l /\ r < width /\ 0 <= t /\ b < height
    /\ l + 1 < r /\ t + 1 < b
    /\ \A cx \in 0..(width - 1), cy \in 0..(height - 1) :
        IF cx < l \/ cx > r \/ cy < t \/ cy > b
        THEN char_buffer[RowMajor(cx, cy)] = Blank
        ELSE IF cx = l \/ cx = r \/ cy = t \/ cy = b
        THEN char_buffer[RowMajor(cx, cy)] = <<"#", "White">>
        ELSE /\ char_buffer[RowMajor(cx, cy)][2] = fcolor
             /\ char_buffer[RowMajor(cx, cy)][1] \notin {" ", "#"}

\* C5: with the three angles 0 and a buffer at least as large as the
\* projected extent, the merged grid shows one face only, the face nearest
\* the camera: the rectangle spanned by its projected corners has edge
\* glyphs on its whole border and that face's fill glyph in that face's
\* colour inside, every other cell is blank, and no fragment of the frame
\* falls outside the grid.
C5_FrontFaceOnly ==
    (mpc = "merged" /\ AtZero /\ width >= ExtentW /\ height >= ExtentH) =>
        /\ \E f \in FaceIds :
            /\ NearestFace(f)
            /\ \A cs \in {[k \in 1..4 |->
                            project(transformed[Face(f).indices[k] + 1],
                                    tscale, width, height)]} :
                  ShowsFace(SeqMin(cs, 1), SeqMax(cs, 1), SeqMin(cs, 2),
                            SeqMax(cs, 2), Face(f).color)
        /\ \A k \in 1..Len(buffer) : InGrid(buffer[k])

\* The frame at angle 0 is merged and its middle cell holds the fill glyph
\* of full intensity.
C5_Witness ==
    /\ mpc = "merged" /\ AtZero
    /\ width >= ExtentW /\ height >= ExtentH
    /\ char_buffer[RowMajor(width \div 2, height \div 2)][1] = "@"

\* The amended C6, safety: the process has ended only for a failed terminal
\* query, a failed print or a failed flush; a query that fails ends it in
\* that iteration before anything is rendered or written; and main renders
\* and writes only what the queries of the iteration answered.
C6_Safe ==
    /\ mainpc = "exited" <=> exit_cause # "None"
    /\ exit_cause \in {"None", "query", "print", "flush"}
    /\ query_failed =>
          /\ mainpc = "exited" /\ exit_cause = "query"
          /\ ~rendered /\ ~wrote /\ screen = NoScreen
    /\ exit_cause = "query" => query_failed
    /\ wrote => rendered
    /\ rendered => screen = <<cols, lines>>

\* C6 (amended): a terminal-query failure and a failure to write or flush
\* the frame are the only events that end the loop; a failed query ends the
\* process in that iteration with nothing rendered or written and no retry;
\* and as long as nothing fails the loop keeps going through query, render
\* and write: again and again a frame has been written, unless the process
\* has ended.
C6_LoopUntilFailure ==
    /\ []C6_Safe
    /\ [][mainpc = "exited" => mainpc' = "exited"]_vars
    /\ []<>(mainpc = "exited" \/ mainpc = "flush")

\* The process has ended on a failed query after writing a frame.
C6_Witness ==
    /\ mainpc = "exited" /\ exit_cause = "query"
    /\ query_failed /\ frames >= 1
    /\ ~rendered /\ ~wrote

\* C6 as claimed: a terminal-query failure is the only event that ends the
\* render loop.
C6_OnlyQueryFailureEnds ==
    mainpc = "exited" => exit_cause = "query"

Dot(a, b) == a[1] * b[1] + a[2] * b[2] + a[3] * b[3]

\* Four times the centre of face f, over tscale.  The cube is centred at the
\* origin, so this is also an outward normal of the face.
Center4(f) ==
    [k \in 1..3 |->
        transformed[Face(f).indices[1] + 1][k]
        + transformed[Face(f).indices[2] + 1][k]
        + transformed[Face(f).indices[3] + 1][k]
        + transformed[Face(f).indices[4] + 1][k]]

\* The camera of project is at (0, 0, -distance).  Face f points away from
\* the viewer when its outward normal and the vector from its centre to the
\* camera make an obtuse angle.
FacesAway(f) ==
    Dot(Center4(f),
        <<0 - Center4(f)[1], 0 - Center4(f)[2],
          (0 - 4 * distance * tscale) - Center4(f)[3]>>) < 0

\* Face f has pushed fill fragments: only they carry its colour.
HasFill(f) == \E k \in 1..Len(buffer) : buffer[k].color = Face(f).color

\* C7: when the face loop is over, the faces the culling test has skipped
\* are exactly the faces whose outward normal points away from the viewer,
\* and no face that points away has pushed fill fragments.
C7_CullsAwayFaces ==
    mpc = "edges" =>
        \A f \in FaceIds :
            /\ f \in skipped <=> FacesAway(f)
            /\ FacesAway(f) => ~HasFill(f)

\* C8: every index of every face is an index of CUBE_VERTICES, and the
\* normal get_face_normal computes from the first three vertices of each
\* face points away from the centre of the cube.
C8_OutwardWinding ==
    mpc = "faces" =>
        \A f \in FaceIds :
            /\ \A k \in 1..4 :
                  Face(f).indices[k] \in 0..(Len(CUBE_VERTICES) - 1)
            /\ \E e \in {face_depths[k] : k \in 1..Len(face_depths)} :
                  e.face = f /\ Dot(e.normal, Center4(f)) > 0

\* What C9 asks of one step of the merge loop on fragment f.
C9_MergeStep(f) ==
    /\ mpc' # "panic"
    /\ ~InGrid(f) => (z_buffer' = z_buffer /\ char_buffer' = char_buffer)
    /\ (z_buffer' # z_buffer \/ char_buffer' # char_buffer) =>
          /\ InGrid(f)
          /\ RowMajor(f.x, f.y) \in GridCells
          /\ RowMajor(f.x, f.y) \div width = f.y
          /\ RowMajor(f.x, f.y) % width = f.x
          /\ \A i \in GridCells \ {RowMajor(f.x, f.y)} :
                z_buffer'[i] = z_buffer[i] /\ char_buffer'[i] = char_buffer[i]
          /\ z_buffer'[RowMajor(f.x, f.y)] = f.z
          /\ char_buffer'[RowMajor(f.x, f.y)] = <<f.c, f.color>>

\* C9: a step of the merge never indexes a grid out of its range; a
\* fragment outside the grid (also when the grid has no column or no row)
\* leaves both grids as they were; and a step that changes a grid has
\* taken a fragment inside the grid and changed the cell y * width + x
\* only, an index of the grids whose row is y and whose column is x.
C9_BoundsChecked ==
    [][(mpc = "merge" /\ bi <= Len(buffer)) => C9_MergeStep(buffer[bi])]_vars

\* On a grid with two rows and two columns a fragment outside the grid has
\* been dropped and a fragment has been written in the last cell.
C9_Witness ==
    /\ mpc = "merged" /\ pass = 1
    /\ width = 2 /\ height = 2
    /\ Len(buffer) = 2
    /\ buffer[1].x = width /\ buffer[1].y = 0
    /\ buffer[2].x = 1 /\ buffer[2].y = 1
    /\ char_buffer[3] = <<buffer[2].c, buffer[2].color>>
    /\ char_buffer[2] = Blank

\* What a terminal shows for a frame: the glyph tokens in order, each with
\* the colour the last directive before it has set ("None" after a reset
\* or before any directive).
GlyphPos(out) == {i \in 1..Len(out) : out[i][1] = "ch"}
NthGlyph(out, k) ==
    CHOOSE i \in GlyphPos(out) :
        Cardinality({j \in GlyphPos(out) : j < i}) = k
Directives(out, i) == {j \in 1..(i - 1) : out[j][1] # "ch"}
ColorAt(out, i) ==
    IF Directives(out, i) = {} THEN "None"
    ELSE LET last == CHOOSE j \in Directives(out, i) :
                        \A m \in Directives(out, i) : m <= j
         IN  IF out[last][1] = "reset" THEN "None" ELSE out[last][2]
Shown(out, k) == <<out[NthGlyph(out, k)][2], ColorAt(out, NthGlyph(out, k))>>

\* The naive encoding of the grid: a colour directive before every
\* non-blank glyph, a reset before every blank.
NaiveOutput ==
    [i \in 1..(2 * width * height) |->
        LET cell == char_buffer[(i - 1) \div 2]
        IN  IF i % 2 = 1
            THEN IF cell[1] # " " THEN TokFg(cell[2]) ELSE TokReset
            ELSE TokCh(cell[1])]

IsBlank(k) == char_buffer[k][1] = " "
\* Cell k begins a run of one colour, cell k ends a run of coloured cells.
RunStart(k) ==
    /\ ~IsBlank(k)
    /\ k = 0 \/ IsBlank(k - 1) \/ char_buffer[k - 1][2] # char_buffer[k][2]
RunEnd(k) ==
    /\ ~IsBlank(k)
    /\ k = width * height - 1 \/ IsBlank(k + 1)

\* C10: the frame holds exactly width * height glyphs, the glyph of each
\* cell in row-major order with a space for a blank cell; a terminal shows
\* each of them as it shows the naive encoding, a non-blank cell with its
\* glyph and its colour and a blank cell as a space with no colour set; a
\* colour directive is emitted only where a run of one colour begins, and a
\* reset only where a run of coloured cells ends.
C10_ColorRuns ==
    mpc = "done" =>
        /\ Cardinality(GlyphPos(output)) = width * height
        /\ \A k \in GridCells :
            /\ Shown(output, k) = Shown(NaiveOutput, k)
            /\ Shown(output, k)[1] = char_buffer[k][1]
            /\ Shown(output, k)[2]
                 = IF IsBlank(k) THEN "None" ELSE char_buffer[k][2]
        /\ Cardinality({i \in 1..Len(output) : output[i][1] = "fg"})
             = Cardinality({k \in GridCells : RunStart(k)})
        /\ Cardinality({i \in 1..Len(output) : output[i][1] = "reset"})
             = Cardinality({k \in GridCells : RunEnd(k)})

\* A frame of a grid with two cells of one colour side by side, then a
\* blank, then a cell of that colour again.
C10_Witness ==
    /\ mpc = "done"
    /\ width * height = 4
    /\ ~IsBlank(0) /\ ~IsBlank(1) /\ IsBlank(2) /\ ~IsBlank(3)
    /\ char_buffer[0][2] = char_buffer[1][2]
    /\ char_buffer[3][2] = char_buffer[0][2]
    /\ Len(output) = 8
====
